---- MODULE Spec2Model ----
(***************************************************************************)
(* Model of babelapi/generator/jinja.py: the Jinja2Generator's filter      *)
(* environment (__init__, render) and its doc-tag substitution (_doc_sub). *)
(***************************************************************************)
EXTENDS Integers, Sequences, FiniteSets, TLC

VARIABLES
    supported_extensions,          \* language -> the extensions its descriptor declares
    ext_to_language,               \* self.ext_to_language (dict)
    language_to_template_filters,  \* self.language_to_template_filters: language -> dict object
    filter_dicts,                  \* the heap of filter dict objects: reference -> contents
    template_env_filters,          \* self.template_env.filters: a reference to a dict object
    pc,                            \* position inside render: idle, from_string, t_render
    extension,                     \* render's parameter (of the running or the last call)
    backup_filters,                \* render's local backup_filters
    pre_call_filters,              \* history: the reference active when the call was made
    last_outcome,                  \* history: none, returned, raised
    raised_exts,                   \* history: extensions whose render call raised
    doc_arg,                       \* _doc_sub: the doc it was called with
    kwargs,                        \* _doc_sub: tag -> macro
    args,                          \* _doc_sub: the extra positional arguments
    doc,                           \* _doc_sub: the local doc, rebound by line 126
    origin,                        \* history: per character of doc, "doc" or "macro"
    scan_pos,                      \* where finditer continues in doc_arg
    sub_pc,                        \* idle, loop, returned, raised
    macro_text_rewritten           \* history: a replace consumed macro-produced text

render_vars == <<supported_extensions, ext_to_language, language_to_template_filters,
                 filter_dicts, template_env_filters, pc, extension, backup_filters,
                 pre_call_filters, last_outcome, raised_exts>>

doc_vars == <<doc_arg, kwargs, args, doc, origin, scan_pos, sub_pc,
              macro_text_rewritten>>

vars == <<render_vars, doc_vars>>

-----------------------------------------------------------------------------
(* The languages of self.languages, in registration order. *)
Languages == <<"JavascriptTargetLanguage", "PythonTargetLanguage", "RubyTargetLanguage">>

LanguageSet == {Languages[i] : i \in 1..Len(Languages)}

(* language.get_language_short_name(): a unique, non-empty prefix. *)
get_language_short_name(language) ==
    CASE language = "JavascriptTargetLanguage" -> "js"
      [] language = "PythonTargetLanguage"     -> "py"
      [] language = "RubyTargetLanguage"       -> "rb"

(* The extensions a descriptor may declare, and one no language declares. *)
LanguageExtensions == {".js", ".py", ".rb"}
Extensions == LanguageExtensions \cup {".html"}

(* The plain names of the language filters, and the formatting method of the *)
(* language each is bound to.                                                *)
PlainFilterNames ==
    {"method", "class", "variable", "string_value", "type", "pprint", "func_call_args"}

FormatMethod(filter_name) ==
    CASE filter_name = "method"         -> "format_method"
      [] filter_name = "class"          -> "format_class"
      [] filter_name = "variable"       -> "format_variable"
      [] filter_name = "string_value"   -> "format_string_value"
      [] filter_name = "type"           -> "format_type"
      [] filter_name = "pprint"         -> "format_obj"
      [] filter_name = "func_call_args" -> "format_func_call_args"

(* A filter implementation: whose it is and which function it calls. *)
Impl(owner, fn) == [owner |-> owner, fn |-> fn]

(* Mutant: every language's filters close over the last registered language. *)
get_template_filters_LastLanguage(language) ==
    [f \in PlainFilterNames |-> Impl(Languages[Len(Languages)], FormatMethod(f))]

get_template_filters(language) ==
    [f \in PlainFilterNames |-> Impl(language, FormatMethod(f))]

(* jinja2.Environment() starts from the library's builtin filters; pprint is *)
(* one of them (a representative few are kept).                              *)
JinjaBuiltinFilterNames == {"upper", "join", "pprint"}

GenericFilterNames ==
    {"pjson", "is_binary", "is_list", "is_struct", "is_union", "is_composite",
     "formal", "inverse_format", "string_slice", "doc_sub"}

(* The environment's filters after lines 51-78. *)
GenericFilters ==
    [f \in GenericFilterNames |-> Impl("Jinja2Generator", f)]
        @@ [f \in JinjaBuiltinFilterNames |-> Impl("jinja2", f)]

lang_filter_name(language, filter_name) ==
    get_language_short_name(language) \o "_" \o filter_name

(* One language's filters under their prefixed names (lines 82-84). *)
PrefixedFilters(language) ==
    LET names == {lang_filter_name(language, f) : f \in PlainFilterNames}
    IN  [n \in names |->
            get_template_filters(language)[
                CHOOSE f \in PlainFilterNames : lang_filter_name(language, f) = n]]

(* The first loop over the languages (lines 81-84): a later assignment wins. *)
RECURSIVE AddPrefixedFilters(_, _)
AddPrefixedFilters(filters, i) ==
    IF i > Len(Languages) THEN filters
    ELSE AddPrefixedFilters(PrefixedFilters(Languages[i]) @@ filters, i + 1)

BaseFilters == AddPrefixedFilters(GenericFilters, 1)

(* Mutant: the overlay is copied before the prefixed filters were added. *)
LanguageFilters_CopiedEarly(language) ==
    get_template_filters(language) @@ GenericFilters

(* One language's overlay (lines 87-89): a copy of the environment's filters *)
(* with the plain names bound to the language.                               *)
LanguageFilters(language) ==
    get_template_filters(language) @@ BaseFilters

(* The loop of lines 46-48: a later language overwrites an earlier one. *)
RECURSIVE BuildExtToLanguage(_, _, _)
BuildExtToLanguage(table, supported, i) ==
    IF i > Len(Languages) THEN table
    ELSE BuildExtToLanguage(
            [e \in supported[Languages[i]] |-> Languages[i]] @@ table,
            supported, i + 1)

EmptyDict == [e \in {} |-> "none"]

(* The dict objects: the environment's own dict and one per language. *)
BaseRef == "env_filters"
DictRefs == {BaseRef} \cup LanguageSet

(* Jinja2Generator.__init__: the state after construction, given the        *)
(* extensions the three descriptors declare. Construction has no failing    *)
(* path of its own: lines 46-48 only assign.                                *)
Constructed(supported) ==
    /\ supported_extensions = supported
    /\ ext_to_language = BuildExtToLanguage(EmptyDict, supported_extensions, 1)
    /\ filter_dicts = [r \in DictRefs |->
                          IF r = BaseRef THEN BaseFilters ELSE LanguageFilters(r)]
    /\ language_to_template_filters = [l \in LanguageSet |-> l]
    /\ template_env_filters = BaseRef
    /\ pc = "idle"
    /\ extension = "none"
    /\ backup_filters = "none"
    /\ pre_call_filters = "none"
    /\ last_outcome = "none"
    /\ raised_exts = {}

Registered == DOMAIN ext_to_language

fixed == <<supported_extensions, ext_to_language, language_to_template_filters,
           doc_vars>>

(* render, lines 93-96 (or the else branch, line 100): save and swap. *)
RenderEnter(ext) ==
    /\ pc = "idle"
    /\ extension' = ext
    /\ pre_call_filters' = template_env_filters
    /\ IF ext \in Registered
       THEN /\ backup_filters' = template_env_filters
            /\ template_env_filters' =
                 language_to_template_filters[ext_to_language[ext]]
       ELSE UNCHANGED <<backup_filters, template_env_filters>>
    /\ pc' = "from_string"
    /\ UNCHANGED <<fixed, filter_dicts, last_outcome, raised_exts>>

(* Line 97 / 102: the template compiles. *)
FromStringOk ==
    /\ pc = "from_string"
    /\ pc' = "t_render"
    /\ UNCHANGED <<fixed, filter_dicts, template_env_filters, extension,
                   backup_filters, pre_call_filters, last_outcome, raised_exts>>

(* An exception leaves render at once: nothing after the raising line runs. *)
Propagate ==
    /\ pc' = "idle"
    /\ backup_filters' = "none"
    /\ last_outcome' = "raised"
    /\ raised_exts' = raised_exts \cup {extension}
    /\ UNCHANGED <<fixed, filter_dicts, template_env_filters, extension,
                   pre_call_filters>>

(* Line 97 / 102 raises (a template syntax error). *)
FromStringRaise ==
    /\ pc = "from_string"
    /\ Propagate

(* Line 98 / 103 raises (a formatting error, an unknown doc tag, ...). *)
TRenderRaise ==
    /\ pc = "t_render"
    /\ Propagate

(* Mutant: the return path forgets to put the saved dict back. *)
RenderReturn_NoRestore ==
    /\ pc = "t_render"
    /\ pc' = "idle"
    /\ backup_filters' = "none"
    /\ last_outcome' = "returned"
    /\ UNCHANGED <<fixed, filter_dicts, template_env_filters, extension,
                   pre_call_filters, raised_exts>>

(* Lines 98-99 and 105 (or 103 and 105): rendered, restored, returned. *)
RenderReturn ==
    /\ pc = "t_render"
    /\ IF extension \in Registered
       THEN template_env_filters' = backup_filters
       ELSE UNCHANGED template_env_filters
    /\ pc' = "idle"
    /\ backup_filters' = "none"
    /\ last_outcome' = "returned"
    /\ UNCHANGED <<fixed, filter_dicts, extension, pre_call_filters, raised_exts>>

RenderNext ==
    \/ \E ext \in Extensions : RenderEnter(ext)
    \/ FromStringOk
    \/ FromStringRaise
    \/ TRenderRaise
    \/ RenderReturn

-----------------------------------------------------------------------------
(* _doc_sub. A string is a sequence of characters, each a one-character     *)
(* string; the backquote, which a string literal cannot hold, is named.     *)
Backtick == "<backquote>"

UpperLetters ==
    {"A","B","C","D","E","F","G","H","I","J","K","L","M",
     "N","O","P","Q","R","S","T","U","V","W","X","Y","Z"}
LowerLetters ==
    {"a","b","c","d","e","f","g","h","i","j","k","l","m",
     "n","o","p","q","r","s","t","u","v","w","x","y","z"}

(* The character class [A-z] of _doc_sub_tag_re: every character from 'A'   *)
(* to 'z', which takes in the six characters between 'Z' and 'a'.           *)
TagClass ==
    UpperLetters \cup {"[", "\\", "]", "^", "_", Backtick} \cup LowerLetters

(* [A-z]* is greedy: the first position at or after j not holding a         *)
(* character of the class. No shorter tag can be followed by ':', which is  *)
(* not in the class, so the regex never backtracks into it.                 *)
RECURSIVE TagEnd(_, _)
TagEnd(s, j) ==
    IF j > Len(s) \/ s[j] \notin TagClass THEN j ELSE TagEnd(s, j + 1)

(* .*? followed by a backtick: the position of the next backtick, 0 when a  *)
(* newline ('.' does not match it) or the end of the string comes first.    *)
RECURSIVE ValEnd(_, _)
ValEnd(s, j) ==
    IF j > Len(s) THEN 0
    ELSE IF s[j] = Backtick THEN j
    ELSE IF s[j] = "\n" THEN 0
    ELSE ValEnd(s, j + 1)

NoMatch == [start |-> 0, colon |-> 0, end |-> 0]

(* _doc_sub_tag_re.match at position i. *)
MatchAt(s, i) ==
    IF s[i] # ":" THEN NoMatch
    ELSE LET k == TagEnd(s, i + 1)
         IN  IF k + 1 <= Len(s) /\ s[k] = ":" /\ s[k + 1] = Backtick
             THEN LET e == ValEnd(s, k + 2)
                  IN  IF e = 0 THEN NoMatch
                      ELSE [start |-> i, colon |-> k, end |-> e]
             ELSE NoMatch

(* The next match finditer yields, scanning from position i. *)
RECURSIVE SearchFrom(_, _)
SearchFrom(s, i) ==
    IF i > Len(s) THEN NoMatch
    ELSE IF MatchAt(s, i).start # 0 THEN MatchAt(s, i)
    ELSE SearchFrom(s, i + 1)

group0(s, m)   == SubSeq(s, m.start, m.end)
groupTag(s, m) == SubSeq(s, m.start + 1, m.colon - 1)
groupVal(s, m) == SubSeq(s, m.colon + 2, m.end - 1)

Flags(n, flag) == [i \in 1..n |-> flag]

(* str.replace(old, new): every non-overlapping occurrence of old, left to  *)
(* right. o carries the origin of each character of s; hit records whether  *)
(* a replaced occurrence held a character a macro had produced.             *)
RECURSIVE Replace(_, _, _, _)
Replace(s, o, old, new) ==
    IF Len(s) < Len(old) THEN [s |-> s, o |-> o, hit |-> FALSE]
    ELSE IF SubSeq(s, 1, Len(old)) = old
    THEN LET rest == Replace(SubSeq(s, Len(old) + 1, Len(s)),
                             SubSeq(o, Len(old) + 1, Len(o)), old, new)
         IN  [s   |-> new \o rest.s,
              o   |-> Flags(Len(new), "macro") \o rest.o,
              hit |-> rest.hit \/ \E i \in 1..Len(old) : o[i] = "macro"]
    ELSE LET rest == Replace(Tail(s), Tail(o), old, new)
         IN  [s |-> <<s[1]>> \o rest.s, o |-> <<o[1]>> \o rest.o, hit |-> rest.hit]

(* The macros a caller may pass: kwargs[tag](val, *args).                   *)
(*   paren: a language construct built from the value and the arguments;    *)
(*   retag: markup of the target's own documentation system, :b:'val'.      *)
ApplyMacro(macro, val, extra) ==
    CASE macro = "paren" -> <<"(">> \o val \o extra \o <<")">>
      [] macro = "retag" -> <<":", "b", ":", Backtick>> \o val \o <<Backtick>>

(* The pieces the documentation strings are built from. *)
Tokens ==
    { <<":", "a", ":", Backtick, "x", Backtick>>,
      <<":", "b", ":", Backtick, "x", Backtick>>,
      <<":", "b", ":", Backtick>>,
      <<":", "_", ":", Backtick>>,
      <<Backtick>>,
      <<"\n">>,
      <<" ">> }

MaxTokens == 3

RECURSIVE DocsOf(_)
DocsOf(n) ==
    IF n = 0 THEN {<<>>}
    ELSE DocsOf(n - 1) \cup {d \o t : d \in DocsOf(n - 1), t \in Tokens}

Docs == DocsOf(MaxTokens)

TagA == <<"a">>
TagB == <<"b">>
TagU == <<"_">>

KwargsChoices ==
    { EmptyDict,
      (TagA :> "paren"),
      (TagA :> "paren") @@ (TagB :> "paren"),
      (TagA :> "retag") @@ (TagB :> "paren"),
      (TagU :> "paren"),
      (TagA :> "paren") @@ (TagB :> "paren") @@ (TagU :> "paren") }

ArgsChoices == { <<>>, <<"!">> }

(* The call _doc_sub(d, *a, **kw): line 119 starts the scan of d. *)
DocSubCall(d, kw, a) ==
    /\ sub_pc = "idle"
    /\ doc_arg' = d
    /\ kwargs' = kw
    /\ args' = a
    /\ doc' = d
    /\ origin' = Flags(Len(d), "doc")
    /\ scan_pos' = 1
    /\ sub_pc' = "loop"
    /\ UNCHANGED <<render_vars, macro_text_rewritten>>

(* finditer runs over the string it was given, whatever doc is rebound to. *)
NextMatch == SearchFrom(doc_arg, scan_pos)

(* Lines 123-125: the tag has no macro. *)
DocSubRaise ==
    /\ sub_pc = "loop"
    /\ NextMatch.start # 0
    /\ groupTag(doc_arg, NextMatch) \notin DOMAIN kwargs
    /\ sub_pc' = "raised"
    /\ UNCHANGED <<render_vars, doc_arg, kwargs, args, doc, origin, scan_pos,
                   macro_text_rewritten>>

(* Line 126: doc = doc.replace(matched_text, kwargs[tag](val, *args)). *)
DocSubReplace ==
    /\ sub_pc = "loop"
    /\ NextMatch.start # 0
    /\ groupTag(doc_arg, NextMatch) \in DOMAIN kwargs
    /\ LET m == NextMatch
           r == Replace(doc, origin, group0(doc_arg, m),
                        ApplyMacro(kwargs[groupTag(doc_arg, m)],
                                   groupVal(doc_arg, m), args))
       IN  /\ doc' = r.s
           /\ origin' = r.o
           /\ macro_text_rewritten' = (macro_text_rewritten \/ r.hit)
           /\ scan_pos' = m.end + 1
    /\ UNCHANGED <<render_vars, doc_arg, kwargs, args, sub_pc>>

(* Line 127: no match is left. *)
DocSubReturn ==
    /\ sub_pc = "loop"
    /\ NextMatch.start = 0
    /\ sub_pc' = "returned"
    /\ UNCHANGED <<render_vars, doc_arg, kwargs, args, doc, origin, scan_pos,
                   macro_text_rewritten>>

DocSubNext ==
    \/ \E d \in Docs, kw \in KwargsChoices, a \in ArgsChoices : DocSubCall(d, kw, a)
    \/ DocSubRaise
    \/ DocSubReplace
    \/ DocSubReturn

(* No _doc_sub call is in progress. *)
DocSubIdle ==
    /\ doc_arg = <<>>
    /\ kwargs = EmptyDict
    /\ args = <<>>
    /\ doc = <<>>
    /\ origin = <<>>
    /\ scan_pos = 0
    /\ sub_pc = "idle"
    /\ macro_text_rewritten = FALSE

(* The generator after construction, for every choice of the extensions the *)
(* three descriptors declare.                                               *)
Init ==
    /\ \E supported \in [LanguageSet -> (SUBSET LanguageExtensions) \ {{}}] :
          Constructed(supported)
    /\ DocSubIdle

Next == RenderNext

Spec == Init /\ [][Next]_vars

(* The descriptors declare one extension each, no two the same. *)
OneExtensionEach ==
    [l \in LanguageSet |->
        CASE l = "JavascriptTargetLanguage" -> {".js"}
          [] l = "PythonTargetLanguage"     -> {".py"}
          [] l = "RubyTargetLanguage"       -> {".rb"}]

InitOneEach == Constructed(OneExtensionEach) /\ DocSubIdle

(* render on a generator whose languages share no extension. *)
SpecOneEach == InitOneEach /\ [][Next]_vars

(* _doc_sub, a static method, called on its own. *)
SpecDocSub == InitOneEach /\ [][DocSubNext]_vars

-----------------------------------------------------------------------------
(* Vocabulary of the properties.                                            *)

Active == filter_dicts[template_env_filters]
InRender == pc # "idle"
Owner(ext) == ext_to_language[ext]
OverlayOf(language) == language_to_template_filters[language]
Finished == sub_pc \in {"returned", "raised"}

(* The doc-tag grammar as documented: ':', one or more letters, ':', and a  *)
(* backquoted value that is any text without a backquote.                   *)
Letters == UpperLetters \cup LowerLetters

RECURSIVE LettersEnd(_, _)
LettersEnd(s, j) ==
    IF j > Len(s) \/ s[j] \notin Letters THEN j ELSE LettersEnd(s, j + 1)

RECURSIVE NextBacktick(_, _)
NextBacktick(s, j) ==
    IF j > Len(s) THEN 0
    ELSE IF s[j] = Backtick THEN j
    ELSE NextBacktick(s, j + 1)

OccurrenceAt(s, i) ==
    IF s[i] # ":" THEN NoMatch
    ELSE LET k == LettersEnd(s, i + 1)
         IN  IF k > i + 1 /\ k + 1 <= Len(s) /\ s[k] = ":" /\ s[k + 1] = Backtick
             THEN LET e == NextBacktick(s, k + 2)
                  IN  IF e = 0 THEN NoMatch
                      ELSE [start |-> i, colon |-> k, end |-> e]
             ELSE NoMatch

(* The occurrences of a string: leftmost, non-overlapping. *)
RECURSIVE Occurrences(_, _)
Occurrences(s, i) ==
    IF i > Len(s) THEN <<>>
    ELSE IF OccurrenceAt(s, i).start # 0
    THEN <<OccurrenceAt(s, i)>> \o Occurrences(s, OccurrenceAt(s, i).end + 1)
    ELSE Occurrences(s, i + 1)

(* The matches finditer yields over a string. *)
RECURSIVE Matches(_, _)
Matches(s, i) ==
    IF SearchFrom(s, i).start = 0 THEN <<>>
    ELSE <<SearchFrom(s, i)>> \o Matches(s, SearchFrom(s, i).end + 1)

OccurrenceTags(s) ==
    {groupTag(s, Occurrences(s, 1)[n]) : n \in 1..Len(Occurrences(s, 1))}

(* One pass over s: each occurrence gives way to its macro's text, the rest *)
(* is copied.                                                               *)
RECURSIVE Substituted(_, _, _, _)
Substituted(s, kw, extra, i) ==
    IF i > Len(s) THEN <<>>
    ELSE IF OccurrenceAt(s, i).start # 0
    THEN ApplyMacro(kw[groupTag(s, OccurrenceAt(s, i))],
                    groupVal(s, OccurrenceAt(s, i)), extra)
            \o Substituted(s, kw, extra, OccurrenceAt(s, i).end + 1)
    ELSE <<s[i]>> \o Substituted(s, kw, extra, i + 1)

-----------------------------------------------------------------------------
(* C1: after every render call, returned or raised, the active filter       *)
(* mapping is the one that was active when the call was made.               *)
C1_RestoredAfterEveryCall ==
    (pc = "idle" /\ last_outcome # "none") =>
        template_env_filters = pre_call_filters

(* C2: while render runs for an extension owned by a language, every plain  *)
(* filter name resolves to that language's implementation and to no other   *)
(* language's, whatever calls came before.                                  *)
C2_PlainNamesResolveToOwner ==
    (InRender /\ extension \in Registered) =>
        \A f \in PlainFilterNames :
            /\ f \in DOMAIN Active
            /\ Active[f] = Impl(Owner(extension), FormatMethod(f))
            /\ \A other \in LanguageSet \ {Owner(extension)} :
                  Active[f] # Impl(other, FormatMethod(f))

(* C2 witness: a Python render in progress, entered while the Javascript    *)
(* overlay was still active after a Javascript render had raised.           *)
C2_Witness ==
    /\ pc = "t_render"
    /\ extension \in Registered
    /\ Owner(extension) = "PythonTargetLanguage"
    /\ \E e \in raised_exts \cap Registered : Owner(e) = "JavascriptTargetLanguage"
    /\ pre_call_filters = OverlayOf("JavascriptTargetLanguage")
    /\ Active["type"] = Impl("PythonTargetLanguage", "format_type")

(* C3: once a render for a language's extension has raised, a later render  *)
(* for an unregistered extension still runs with the initial mapping, in    *)
(* which no plain name is bound to a language; a later render for a         *)
(* language's extension runs with that language's overlay, and that overlay *)
(* is no longer active after it has returned.                               *)
C3_FailureLeavesNoLanguageBehind ==
    (raised_exts \cap Registered # {}) =>
        /\ (InRender /\ extension \notin Registered) =>
              /\ template_env_filters = BaseRef
              /\ \A f \in PlainFilterNames \cap DOMAIN Active :
                    Active[f].owner \notin LanguageSet
        /\ (InRender /\ extension \in Registered) =>
              template_env_filters = OverlayOf(Owner(extension))
        /\ (pc = "idle" /\ last_outcome = "returned" /\ extension \in Registered) =>
              template_env_filters # OverlayOf(Owner(extension))

(* C4: in every state, every language's prefixed filter names are in the    *)
(* active mapping and bound to that language's implementation.              *)
C4_PrefixedAlwaysBound ==
    \A language \in LanguageSet : \A f \in PlainFilterNames :
        /\ lang_filter_name(language, f) \in DOMAIN Active
        /\ Active[lang_filter_name(language, f)] = Impl(language, FormatMethod(f))

(* C4 witness: a Javascript render in progress, after some render raised,   *)
(* in which py_type is Python's and the plain type is Javascript's.         *)
C4_Witness ==
    /\ pc = "t_render"
    /\ extension \in Registered
    /\ Owner(extension) = "JavascriptTargetLanguage"
    /\ raised_exts # {}
    /\ Active["py_type"] = Impl("PythonTargetLanguage", "format_type")
    /\ Active["type"] = Impl("JavascriptTargetLanguage", "format_type")

(* C5: two languages claiming one extension make construction fail, so no   *)
(* constructed generator has an extension that two languages claim.         *)
C5_NoExtensionClaimedTwice ==
    \A l1 \in LanguageSet : \A l2 \in LanguageSet \ {l1} :
        supported_extensions[l1] \cap supported_extensions[l2] = {}

(* C6: _doc_sub raises whenever the doc holds an occurrence whose tag has   *)
(* no macro, wherever it stands and whatever other tags the doc holds.      *)
C6_UnknownTagRaises ==
    (Finished /\ \E tag \in OccurrenceTags(doc_arg) : tag \notin DOMAIN kwargs) =>
        sub_pc = "raised"

(* C7: when every occurrence's tag has a macro, _doc_sub returns the doc    *)
(* with each occurrence replaced in full by its macro's text and everything *)
(* else unchanged and in order. Stated for the docs whose occurrences are   *)
(* exactly the matches of _doc_sub_tag_re, so that what is recognised as a  *)
(* tag is not in question.                                                  *)
C7_EveryOccurrenceReplaced ==
    (/\ Finished
     /\ Matches(doc_arg, 1) = Occurrences(doc_arg, 1)
     /\ OccurrenceTags(doc_arg) \subseteq DOMAIN kwargs) =>
        /\ sub_pc = "returned"
        /\ doc = Substituted(doc_arg, kwargs, args, 1)

(* C8: text a macro produced is never modified by the substitution of       *)
(* another occurrence.                                                      *)
C8_MacroTextUntouched ==
    ~macro_text_rewritten

(* C9: text of the form :tag:'value' whose tag is empty or holds a          *)
(* non-letter is no occurrence: a doc without any occurrence is returned    *)
(* unchanged, with no error.                                                *)
C9_OnlyLetterTagsRecognised ==
    (Finished /\ Occurrences(doc_arg, 1) = <<>>) =>
        /\ sub_pc = "returned"
        /\ doc = doc_arg

(* C10 as stated: after render calls that all succeeded the active mapping  *)
(* is the base mapping, which holds the generic and the prefixed filters    *)
(* and none of the plain names; render never changes the extension table    *)
(* or an overlay's contents.                                                *)
C10_BaseHasNoPlainName ==
    /\ (pc = "idle" /\ last_outcome = "returned" /\ raised_exts = {}) =>
          /\ template_env_filters = BaseRef
          /\ GenericFilterNames \subseteq DOMAIN Active
          /\ \A language \in LanguageSet : \A f \in PlainFilterNames :
                lang_filter_name(language, f) \in DOMAIN Active
          /\ PlainFilterNames \cap DOMAIN Active = {}
    /\ ext_to_language = BuildExtToLanguage(EmptyDict, supported_extensions, 1)
    /\ \A language \in LanguageSet :
          filter_dicts[OverlayOf(language)] = LanguageFilters(language)

(* C10 amended: as C10, except that the base mapping binds no plain name    *)
(* to a language: of the plain names it holds only pprint, bound to the     *)
(* template engine's builtin.                                               *)
C10_BaseBindsNoLanguage ==
    /\ (pc = "idle" /\ raised_exts = {}) =>
          /\ template_env_filters = BaseRef
          /\ GenericFilterNames \subseteq DOMAIN Active
          /\ \A language \in LanguageSet : \A f \in PlainFilterNames :
                lang_filter_name(language, f) \in DOMAIN Active
          /\ PlainFilterNames \cap DOMAIN Active = {"pprint"}
          /\ Active["pprint"] = Impl("jinja2", "pprint")
    /\ ext_to_language = BuildExtToLanguage(EmptyDict, supported_extensions, 1)
    /\ \A language \in LanguageSet :
          filter_dicts[OverlayOf(language)] = LanguageFilters(language)

(* C10 witness: a render for a language's extension has returned, none has  *)
(* raised, and the base mapping is active again.                            *)
C10_Witness ==
    /\ pc = "idle"
    /\ last_outcome = "returned"
    /\ raised_exts = {}
    /\ extension \in Registered
    /\ pre_call_filters = BaseRef
    /\ template_env_filters = BaseRef

====
